---- MODULE Spec2Model ----
(***************************************************************************)
(* Model of python-app/app.py: the load-testing web application.           *)
(*                                                                         *)
(* State: the global `metrics` dict, the global list                       *)
(* `current_stress_processes`, the external stress-ng processes, the       *)
(* request-handling threads of the HTTP server and the worker threads      *)
(* started by POST /stress (threading.Thread(target=run_stress_ng)).       *)
(*                                                                         *)
(* Threads interleave between Python statements.  `metrics[k] += 1` is a   *)
(* read followed by a write (no lock is taken anywhere in app.py), so it   *)
(* is modelled as two steps: a load into the thread's register and a store *)
(* of register + 1.  list.append, list.remove, list.clear, `in` and the    *)
(* slice copy are single steps.                                            *)
(***************************************************************************)
EXTENDS Integers, Sequences, FiniteSets, TLC

\* ------------------------------------------------------------- bounds
NThreads == 2           \* request-handling threads of the server
NHandlers == 1          \* of them, those serving requests at once in the
                        \* specifications of one subsystem
MaxRequests == 2        \* requests received in one behaviour of the stress runner
NRuns == 2              \* worker threads the server can start
MaxRuns == 1            \* of them, stress runs started in one behaviour of the
                        \* specifications of one subsystem
MaxEchoRequests == 2    \* POST /echo requests in one behaviour of the echo client
MaxRequestsHttp == 2    \* requests in one behaviour of the whole HTTP surface
MaxCountRequests == 3   \* requests in one behaviour of the concurrent counters
MaxPayloadRequests == 1 \* POST /echo requests in one behaviour of the payload builder
MaxSamples == 3         \* samples taken in one behaviour of the system sampler

Handlers == 1..NThreads
Serving == 1..NHandlers
Runs == 1..NRuns

\* ------------------------------------------------------------- program constants
MaxDuration == 3600     \* `if duration > 3600`
HTTP_OK == 200          \* `if response.status_code == 200`
UpdateInterval == 5     \* periodic_metrics_update: time.sleep(5)
BackoffInterval == 10   \* periodic_metrics_update: time.sleep(10) in its except branch

\* ------------------------------------------------------------- inputs
\* duration values posted to /stress (form field min=5, max=3600)
Durations == {0, 5, 3600, 3601}
\* what subprocess.Popen can do: start the process, raise FileNotFoundError
\* (binary absent), or raise another exception (OSError, PermissionError ...)
PopenOutcomes == {"ok", "FileNotFoundError", "Exception"}
\* what terminate() + wait(timeout=5) can do for one process
StopOutcomes == {"stopped", "timeout", "raised"}
\* what psutil can do in one sample: deliver both readings, or raise in
\* cpu_percent or in virtual_memory
SampleOutcomes == {"ok", "cpu_percent raises", "virtual_memory raises"}
\* readings: cpu_percent and memory.percent
CpuReadings == {10, 90}
MemoryReadings == {40, 60}

VARIABLES
  metrics,                    \* the global dict `metrics`
  current_stress_processes,   \* the global list (of process ids)
  proc,                       \* external process of run r: "none" | "running" | "exited",
                              \* or why Popen started none: "absent" (no such binary) |
                              \* "failed" (another error)
  signalled,                  \* processes that were sent SIGTERM by terminate()
  \* request-handling threads
  pc,                         \* position of handler thread t
  ep,                         \* endpoint it is serving
  reg,                        \* value it loaded from metrics for a += / max()
  duration,                   \* parsed `duration` of a POST /stress
  snapshot,                   \* stop_stress: current_stress_processes[:]
  outcomes,                   \* stop_stress: what happened to each snapshot entry so far
  stopped_count,              \* stop_stress: local stopped_count
  all_running,                \* stop_stress: when it was called, every started test was
                              \* running and registered and the gauge showed their number
  reply,                      \* HTTP reply of the handler: [code, kind]
  incs,                       \* per request: how many `+= 1` it executed on each counter
  \* call_echo / call_echo_service
  args,                       \* [message, method, vulnerable_payload] of the call
  sent,                       \* the requests it has sent to the echo service, in order
  response,                   \* the response it got: [status_code, text], or NoResponse
  response_time,              \* its local response_time
  result,                     \* what call_echo_service returned
  \* worker threads running run_stress_ng
  wpc,                        \* position of worker r
  wdur,                       \* its `duration` argument
  wreg,                       \* value it loaded from metrics
  wres,                       \* its return value: "none" | "success" | "tool_missing" | "error"
  \* the metrics thread running periodic_metrics_update
  spc,                        \* its position
  sample,                     \* get_system_metrics: its locals cpu_percent, memory.percent
  slast,                      \* what psutil did in the sample it took last
  swait,                      \* the argument of the time.sleep it is in
  nsamples,                   \* samples taken so far
  \* bookkeeping of the environment
  nreq                        \* requests received so far

stressVars == <<current_stress_processes, proc, signalled, wpc, wdur, wreg, wres>>
stopVars == <<snapshot, outcomes, stopped_count, all_running>>
reqVars == <<pc, ep, reg, duration, reply, incs, nreq>>
echoVars == <<args, sent, response, response_time, result>>
samplerVars == <<spc, sample, slast, swait, nsamples>>
vars == <<metrics, stressVars, stopVars, reqVars, echoVars, samplerVars>>

CounterKeys == {"requests_total", "echo_requests_total",
                "echo_requests_success", "echo_requests_failed"}
MetricKeys == CounterKeys \cup {"stress_tests_running", "last_stress_duration",
                                "last_echo_response_time", "cpu_usage",
                                "memory_usage"}

NoReply == [code |-> 0, kind |-> "none"]
NoIncs == [k \in CounterKeys |-> 0]
NoArgs == [message |-> <<>>, method |-> "", vulnerable_payload |-> FALSE]
NoResponse == [status_code |-> 0, text |-> ""]
NoJson == [echo |-> ""]
NoSample == [cpu_percent |-> 0, memory_percent |-> 0]
NoResult == [success |-> FALSE, status_code |-> 0, json |-> NoJson,
             raw_response |-> "", error |-> "", response_time |-> 0,
             returned |-> FALSE]

\* Elements of a sequence, and a sequence without the first occurrence of x
\* (list.remove); the variant is a remove that leaves the list as it is.
Range(s) == {s[i] : i \in 1..Len(s)}
ListRemoveNothing(s, x) == s
RECURSIVE ListRemove(_, _)
ListRemove(s, x) ==
  IF s = <<>> THEN <<>>
  ELSE IF Head(s) = x THEN Tail(s)
  ELSE <<Head(s)>> \o ListRemove(Tail(s), x)

Max(a, b) == IF a >= b THEN a ELSE b

Init ==
  /\ metrics = [k \in MetricKeys |-> 0]
  /\ current_stress_processes = <<>>
  /\ proc = [r \in Runs |-> "none"]
  /\ signalled = {}
  /\ pc = [t \in Handlers |-> "idle"]
  /\ ep = [t \in Handlers |-> "none"]
  /\ reg = [t \in Handlers |-> 0]
  /\ duration = [t \in Handlers |-> 0]
  /\ snapshot = [t \in Handlers |-> <<>>]
  /\ outcomes = [t \in Handlers |-> <<>>]
  /\ stopped_count = [t \in Handlers |-> 0]
  /\ all_running = [t \in Handlers |-> FALSE]
  /\ reply = [t \in Handlers |-> NoReply]
  /\ incs = [t \in Handlers |-> NoIncs]
  /\ args = [t \in Handlers |-> NoArgs]
  /\ sent = [t \in Handlers |-> <<>>]
  /\ response = [t \in Handlers |-> NoResponse]
  /\ response_time = [t \in Handlers |-> 0]
  /\ result = [t \in Handlers |-> NoResult]
  /\ wpc = [r \in Runs |-> "unused"]
  /\ wdur = [r \in Runs |-> 0]
  /\ wreg = [r \in Runs |-> 0]
  /\ wres = [r \in Runs |-> "none"]
  /\ spc = "sample"
  /\ sample = NoSample
  /\ slast = "none"
  /\ swait = 0
  /\ nsamples = 0
  /\ nreq = 0


\* ------------------------------------------------------------- HTTP surface
Endpoints == {"index", "health", "metrics", "status", "stress_get",
              "stress_post", "echo", "stop"}

\* The first statement of every handler but stop_stress is
\* metrics['requests_total'] += 1; stop_stress starts with its loop.
FirstPc(e) == IF e = "stop" THEN "stop_snapshot" ELSE "count_load"

\* Stress runs started or about to be started by a request in progress.
RunsClaimed ==
  Cardinality({r \in Runs : wpc[r] # "unused"})
  + Cardinality({t \in Handlers : pc[t] \in {"count_load", "count_store", "stress_post"}
                                  /\ ep[t] = "stress_post"
                                  /\ duration[t] <= MaxDuration})

\* A request arrives and the server hands it to a free thread.
\* `d` is the posted duration (POST /stress), `a` the posted echo parameters
\* (POST /echo); `budget` bounds the requests and `limit` the stress runs of
\* the behaviour.
Receive(t, e, d, a, budget, limit) ==
  /\ pc[t] = "idle"
  /\ nreq < budget
  /\ (e = "stress_post" /\ d <= MaxDuration) => RunsClaimed < limit
  /\ nreq' = nreq + 1
  /\ ep' = [ep EXCEPT ![t] = e]
  /\ duration' = [duration EXCEPT ![t] = IF e = "stress_post" THEN d ELSE 0]
  /\ args' = [args EXCEPT ![t] = IF e = "echo" THEN a ELSE NoArgs]
  /\ pc' = [pc EXCEPT ![t] = FirstPc(e)]
  /\ UNCHANGED <<metrics, stressVars, stopVars, reg, reply, incs, sent, response,
                 response_time, result, samplerVars>>

\* A request that arrives when no other is being served: the requests of a
\* client that waits for each reply before it sends the next.
ReceiveAlone(t, e, d, a, budget, limit) ==
  /\ \A u \in Handlers : pc[u] = "idle"
  /\ Receive(t, e, d, a, budget, limit)

\* metrics['requests_total'] += 1, the read
count_load(t) ==
  /\ pc[t] = "count_load"
  /\ reg' = [reg EXCEPT ![t] = metrics["requests_total"]]
  /\ pc' = [pc EXCEPT ![t] = "count_store"]
  /\ UNCHANGED <<metrics, stressVars, stopVars, ep, duration, reply, incs, nreq,
                 echoVars, samplerVars>>

\* metrics['requests_total'] += 1, the write; then the handler's body
count_store(t) ==
  /\ pc[t] = "count_store"
  /\ metrics' = [metrics EXCEPT !["requests_total"] = reg[t] + 1]
  /\ incs' = [incs EXCEPT ![t]["requests_total"] = @ + 1]
  /\ pc' = [pc EXCEPT ![t] = ep[t]]
  /\ UNCHANGED <<stressVars, stopVars, ep, reg, duration, reply, nreq, echoVars,
                 samplerVars>>

\* The handlers that only read: index, health, get_metrics, status and the
\* GET branch of start_stress.
Render(t, e) ==
  /\ pc[t] = e
  /\ reply' = [reply EXCEPT ![t] = [code |-> 200, kind |-> e]]
  /\ pc' = [pc EXCEPT ![t] = "ret"]
  /\ UNCHANGED <<metrics, stressVars, stopVars, ep, reg, duration, incs, nreq,
                 echoVars, samplerVars>>

index(t) == Render(t, "index")
health(t) == Render(t, "health")
get_metrics(t) == Render(t, "metrics")
status(t) == Render(t, "status")
start_stress_get(t) == Render(t, "stress_get")

\* `if duration > 3600`; the variant with `>=` is the off-by-one form of the
\* same test.
DurationRejectedFrom3600(d) == d >= MaxDuration
DurationRejected(d) == d > MaxDuration

\* The worker thread a POST /stress starts: the first unused one.
FreeRun == CHOOSE r \in Runs : wpc[r] = "unused" /\ \A q \in Runs : wpc[q] = "unused" => r <= q

\* POST branch of start_stress: validate, then start the worker thread.
start_stress(t) ==
  /\ pc[t] = "stress_post"
  /\ IF DurationRejected(duration[t])
       THEN /\ reply' = [reply EXCEPT ![t] = [code |-> 400, kind |-> "error"]]
            /\ UNCHANGED <<wpc, wdur>>
       ELSE /\ wpc' = [wpc EXCEPT ![FreeRun] = "popen"]
            /\ wdur' = [wdur EXCEPT ![FreeRun] = duration[t]]
            /\ reply' = [reply EXCEPT ![t] = [code |-> 200, kind |-> "started"]]
  /\ pc' = [pc EXCEPT ![t] = "ret"]
  /\ UNCHANGED <<metrics, current_stress_processes, proc, signalled, wreg, wres,
                 stopVars, ep, reg, duration, incs, nreq, echoVars, samplerVars>>

\* The reply has been sent; the thread is free again.
Return(t) ==
  /\ pc[t] = "ret"
  /\ pc' = [pc EXCEPT ![t] = "idle"]
  /\ ep' = [ep EXCEPT ![t] = "none"]
  /\ reg' = [reg EXCEPT ![t] = 0]
  /\ duration' = [duration EXCEPT ![t] = 0]
  /\ snapshot' = [snapshot EXCEPT ![t] = <<>>]
  /\ outcomes' = [outcomes EXCEPT ![t] = <<>>]
  /\ stopped_count' = [stopped_count EXCEPT ![t] = 0]
  /\ all_running' = [all_running EXCEPT ![t] = FALSE]
  /\ reply' = [reply EXCEPT ![t] = NoReply]
  /\ incs' = [incs EXCEPT ![t] = NoIncs]
  /\ args' = [args EXCEPT ![t] = NoArgs]
  /\ sent' = [sent EXCEPT ![t] = <<>>]
  /\ response' = [response EXCEPT ![t] = NoResponse]
  /\ response_time' = [response_time EXCEPT ![t] = 0]
  /\ result' = [result EXCEPT ![t] = NoResult]
  /\ UNCHANGED <<metrics, stressVars, nreq, samplerVars>>

\* ------------------------------------------------------------- run_stress_ng
wUnch == <<stopVars, reqVars, echoVars, samplerVars>>

\* The except clause that handles what Popen raised: `except
\* FileNotFoundError` comes first, `except Exception` takes the rest; the
\* variant is the function without its first clause.
CatchesGeneric(o) == "Exception"
Catches(o) == IF o = "FileNotFoundError" THEN "FileNotFoundError" ELSE "Exception"

\* subprocess.Popen(...) and current_stress_processes.append(process)
run_stress_ng_popen(r, o) ==
  /\ wpc[r] = "popen"
  /\ \/ /\ o = "ok"
        /\ proc' = [proc EXCEPT ![r] = "running"]
        /\ current_stress_processes' = Append(current_stress_processes, r)
        /\ wpc' = [wpc EXCEPT ![r] = "inc_load"]
        /\ UNCHANGED wres
     \/ /\ o # "ok"
        /\ proc' = [proc EXCEPT ![r] = IF o = "FileNotFoundError" THEN "absent"
                                       ELSE "failed"]
        /\ IF Catches(o) = "FileNotFoundError"
             THEN /\ wpc' = [wpc EXCEPT ![r] = "done"]
                  /\ wres' = [wres EXCEPT ![r] = "tool_missing"]
             ELSE /\ wpc' = [wpc EXCEPT ![r] = "exc_load"]
                  /\ UNCHANGED wres
        /\ UNCHANGED current_stress_processes
  /\ UNCHANGED <<metrics, signalled, wdur, wreg, wUnch>>

\* metrics['stress_tests_running'] += 1, the read
run_stress_ng_inc_load(r) ==
  /\ wpc[r] = "inc_load"
  /\ wreg' = [wreg EXCEPT ![r] = metrics["stress_tests_running"]]
  /\ wpc' = [wpc EXCEPT ![r] = "inc_store"]
  /\ UNCHANGED <<metrics, current_stress_processes, proc, signalled, wdur, wres, wUnch>>

\* metrics['stress_tests_running'] += 1, the write
run_stress_ng_inc_store(r) ==
  /\ wpc[r] = "inc_store"
  /\ metrics' = [metrics EXCEPT !["stress_tests_running"] = wreg[r] + 1]
  /\ wpc' = [wpc EXCEPT ![r] = "set_duration"]
  /\ UNCHANGED <<current_stress_processes, proc, signalled, wdur, wreg, wres, wUnch>>

\* metrics['last_stress_duration'] = duration
run_stress_ng_set_duration(r) ==
  /\ wpc[r] = "set_duration"
  /\ metrics' = [metrics EXCEPT !["last_stress_duration"] = wdur[r]]
  /\ wdur' = [wdur EXCEPT ![r] = 0]
  /\ wpc' = [wpc EXCEPT ![r] = "communicate"]
  /\ UNCHANGED <<current_stress_processes, proc, signalled, wreg, wres, wUnch>>

\* The external process ends: its --timeout elapsed, it failed, or it was
\* killed by a signal.
ProcessExit(r) ==
  /\ proc[r] = "running"
  /\ proc' = [proc EXCEPT ![r] = "exited"]
  /\ UNCHANGED <<metrics, current_stress_processes, signalled, wpc, wdur, wreg,
                 wres, wUnch>>

\* process.communicate() returns once the process has ended; then
\* `if process in current_stress_processes:`
run_stress_ng_communicate(r) ==
  /\ wpc[r] = "communicate"
  /\ proc[r] = "exited"
  /\ wpc' = [wpc EXCEPT ![r] = IF r \in Range(current_stress_processes)
                                 THEN "remove" ELSE "dec_load"]
  /\ UNCHANGED <<metrics, current_stress_processes, proc, signalled, wdur, wreg,
                 wres, wUnch>>

\* current_stress_processes.remove(process); ValueError when the list no
\* longer holds it, which `except Exception` catches.
run_stress_ng_remove(r) ==
  /\ wpc[r] = "remove"
  /\ IF r \in Range(current_stress_processes)
       THEN /\ current_stress_processes' = ListRemove(current_stress_processes, r)
            /\ wpc' = [wpc EXCEPT ![r] = "dec_load"]
       ELSE /\ wpc' = [wpc EXCEPT ![r] = "exc_load"]
            /\ UNCHANGED current_stress_processes
  /\ UNCHANGED <<metrics, proc, signalled, wdur, wreg, wres, wUnch>>

\* metrics['stress_tests_running'] -= 1, the read
run_stress_ng_dec_load(r) ==
  /\ wpc[r] = "dec_load"
  /\ wreg' = [wreg EXCEPT ![r] = metrics["stress_tests_running"]]
  /\ wpc' = [wpc EXCEPT ![r] = "dec_store"]
  /\ UNCHANGED <<metrics, current_stress_processes, proc, signalled, wdur, wres, wUnch>>

\* metrics['stress_tests_running'] -= 1, the write; return {'success': True}
run_stress_ng_dec_store(r) ==
  /\ wpc[r] = "dec_store"
  /\ metrics' = [metrics EXCEPT !["stress_tests_running"] = wreg[r] - 1]
  /\ wpc' = [wpc EXCEPT ![r] = "done"]
  /\ wres' = [wres EXCEPT ![r] = "success"]
  /\ UNCHANGED <<current_stress_processes, proc, signalled, wdur, wreg, wUnch>>

\* except Exception: metrics[...] = max(0, metrics[...] - 1), the read
run_stress_ng_exc_load(r) ==
  /\ wpc[r] = "exc_load"
  /\ wreg' = [wreg EXCEPT ![r] = metrics["stress_tests_running"]]
  /\ wpc' = [wpc EXCEPT ![r] = "exc_store"]
  /\ UNCHANGED <<metrics, current_stress_processes, proc, signalled, wdur, wres, wUnch>>

\* except Exception: the write; return {'success': False}
run_stress_ng_exc_store(r) ==
  /\ wpc[r] = "exc_store"
  /\ metrics' = [metrics EXCEPT !["stress_tests_running"] = Max(0, wreg[r] - 1)]
  /\ wpc' = [wpc EXCEPT ![r] = "done"]
  /\ wres' = [wres EXCEPT ![r] = "error"]
  /\ UNCHANGED <<current_stress_processes, proc, signalled, wdur, wreg, wUnch>>

\* ------------------------------------------------------------- stop_stress
sUnch == <<wpc, wdur, wreg, wres, ep, reg, duration, incs, nreq, echoVars, samplerVars>>

\* stopped_count = 0; current_stress_processes[:]
stop_stress_snapshot(t) ==
  /\ pc[t] = "stop_snapshot"
  /\ snapshot' = [snapshot EXCEPT ![t] = current_stress_processes]
  /\ outcomes' = [outcomes EXCEPT ![t] = <<>>]
  /\ stopped_count' = [stopped_count EXCEPT ![t] = 0]
  /\ all_running' = [all_running EXCEPT ![t] =
                       /\ \A r \in Runs : wpc[r] \in {"unused", "communicate"}
                       /\ \A r \in Runs : wpc[r] = "communicate" =>
                            proc[r] = "running" /\ r \in Range(current_stress_processes)
                       /\ metrics["stress_tests_running"]
                            = Cardinality({r \in Runs : wpc[r] = "communicate"})]
  /\ pc' = [pc EXCEPT ![t] = "stop_loop"]
  /\ UNCHANGED <<metrics, current_stress_processes, proc, signalled, reply, sUnch>>

\* stopped_count += 1 is reached only when neither terminate() nor
\* wait(timeout=5) raised; the variant counts before the wait, so a timeout
\* counts too.
CountsAsStoppedAll(o) == o \in {"stopped", "timeout"}
CountsAsStopped(o) == o = "stopped"

\* One iteration of the loop: process.terminate(); process.wait(timeout=5).
\*   "stopped": the process is gone within 5 seconds (or was gone already);
\*   "timeout": SIGTERM was sent, the process is still there: TimeoutExpired;
\*   "raised":  terminate() raised and nothing was sent.
stop_stress_loop(t, o) ==
  /\ pc[t] = "stop_loop"
  /\ Len(outcomes[t]) < Len(snapshot[t])
  /\ LET p == snapshot[t][Len(outcomes[t]) + 1] IN
       /\ o = "timeout" => proc[p] = "running"
       /\ proc' = IF o = "stopped" THEN [proc EXCEPT ![p] = "exited"] ELSE proc
       /\ signalled' = IF o \in {"stopped", "timeout"} /\ proc[p] = "running"
                         THEN signalled \cup {p} ELSE signalled
  /\ outcomes' = [outcomes EXCEPT ![t] = Append(@, o)]
  /\ stopped_count' = [stopped_count EXCEPT ![t] =
                         IF CountsAsStopped(o) THEN @ + 1 ELSE @]
  /\ UNCHANGED <<metrics, current_stress_processes, snapshot, all_running, pc, reply, sUnch>>

\* current_stress_processes.clear(): the list after it, whatever the loop of
\* handler t did; the variant removes only the processes confirmed stopped.
ListAfterClearStoppedOnly(t) ==
  SelectSeq(current_stress_processes,
            LAMBDA p : ~\E i \in 1..Len(outcomes[t]) :
                          snapshot[t][i] = p /\ outcomes[t][i] = "stopped")
ListAfterClear(t) == <<>>

\* current_stress_processes.clear()
stop_stress_clear(t) ==
  /\ pc[t] = "stop_loop"
  /\ Len(outcomes[t]) = Len(snapshot[t])
  /\ current_stress_processes' = ListAfterClear(t)
  /\ pc' = [pc EXCEPT ![t] = "stop_reset"]
  /\ UNCHANGED <<metrics, proc, signalled, stopVars, reply, sUnch>>

\* metrics['stress_tests_running'] = 0; return jsonify(...)
stop_stress_reset(t) ==
  /\ pc[t] = "stop_reset"
  /\ metrics' = [metrics EXCEPT !["stress_tests_running"] = 0]
  /\ reply' = [reply EXCEPT ![t] = [code |-> 200, kind |-> "stopped"]]
  /\ pc' = [pc EXCEPT ![t] = "ret"]
  /\ UNCHANGED <<current_stress_processes, proc, signalled, stopVars, sUnch>>

\* ------------------------------------------------------------- call_echo_service
\* Text is a sequence of characters.
\* vulnerable_msg, the fixed payload
Marker ==
  <<"$", "{", "j", "n", "d", "i", ":", "l", "d", "a", "p", ":", "/", "/",
    "a", "t", "t", "a", "c", "k", "e", "r", ".", "c", "o", "m", "/", "e",
    "x", "p", "l", "o", "i", "t", "}">>
\* f"{message} - VULNERABLE: {vulnerable_msg}": what lies between the two
Separator ==
  <<" ", "-", " ", "V", "U", "L", "N", "E", "R", "A", "B", "L", "E", ":",
    " ">>

\* messages posted to /echo
Messages == {<<"h", "i">>, <<"a", " ", "b">>, <<"%", "2", "0">>}
Methods == {"POST", "GET"}
EchoInputs == [message : Messages, method : Methods, vulnerable_payload : BOOLEAN]
\* the inputs that decide how a call is counted: the method
EchoInputsPlain == {a \in EchoInputs : a.message = <<"h", "i">> /\ ~a.vulnerable_payload}

\* what the echo service can answer
Statuses == {200, 201, 500}
JsonText == "{\"echo\":\"hi\"}"
Bodies == {JsonText, "pong"}
Responses == {r \in [status_code : Statuses, text : Bodies] :
                r.status_code = 200 \/ (r.status_code = 201) = (r.text = JsonText)}
\* requests.exceptions.RequestException: timeout, connection refused, DNS
TransportError == [status_code |-> -1, text |-> "RequestException"]
EchoOutcomes == Responses \cup {TransportError}
\* time.time() - start_time, in ticks
Elapsed == {1, 2}

\* urllib.parse.quote: letters, digits and _.-~/ stay, any other character
\* becomes %XX
PercentCode ==
  (" " :> <<"%", "2", "0">>) @@ ("$" :> <<"%", "2", "4">>) @@
  ("%" :> <<"%", "2", "5">>) @@
  (":" :> <<"%", "3", "A">>) @@ ("{" :> <<"%", "7", "B">>) @@
  ("}" :> <<"%", "7", "D">>)
RECURSIVE Quote(_)
Quote(s) ==
  IF s = <<>> THEN <<>>
  ELSE (IF Head(s) \in DOMAIN PercentCode THEN PercentCode[Head(s)] ELSE <<Head(s)>>)
       \o Quote(Tail(s))

\* What the receiving server makes of a path segment: every %XX becomes its
\* character again (the inverse of quote).
RECURSIVE Unquote(_)
Unquote(s) ==
  IF s = <<>> THEN <<>>
  ELSE IF Len(s) >= 3 /\ \E c \in DOMAIN PercentCode : PercentCode[c] = SubSeq(s, 1, 3)
    THEN <<CHOOSE c \in DOMAIN PercentCode : PercentCode[c] = SubSeq(s, 1, 3)>>
         \o Unquote(SubSeq(s, 4, Len(s)))
    ELSE <<Head(s)>> \o Unquote(Tail(s))

\* headers = {...}; if vulnerable_payload: two more headers
Headers(v) ==
  [h \in {"Content-Type", "User-Agent"}
         \cup (IF v THEN {"X-Vulnerable-Header", "X-Log4j-Test"} ELSE {}) |->
     IF h = "Content-Type" THEN <<"application/json">>
     ELSE IF h = "User-Agent" THEN <<"LoadTestApp/2.0">> ELSE Marker]

\* if vulnerable_payload: message = f"{message} - VULNERABLE: {vulnerable_msg}";
\* the variant appends without looking at the flag.
SentMessageMarked(m, v) == m \o Separator \o Marker
SentMessage(m, v) == IF v THEN m \o Separator \o Marker ELSE m

\* The request of each calling convention: the JSON body of the POST, the
\* query parameter of the first GET, the path segment of the fallback GET;
\* `outcome` records how it ended: the status of the response, -1 when it
\* raised RequestException.
Request(form, a, o) ==
  [form |-> form,
   outcome |-> o.status_code,
   headers |-> Headers(a.vulnerable_payload),
   message |-> IF form = "path"
                 THEN Quote(SentMessage(a.message, a.vulnerable_payload))
                 ELSE SentMessage(a.message, a.vulnerable_payload)]

\* if method.upper() == 'POST': ... else: GET
FirstForm(method) == IF method = "POST" THEN "post" ELSE "query"

\* The inner `except requests.exceptions.RequestException` of the GET branch:
\* whether a first request that ended with `o` is retried in the path form;
\* the variant also retries after a status other than 200.
FallsBackOnStatus(form, o) == form = "query" /\ (o = TransportError \/ o.status_code # 200)
FallsBack(form, o) == form = "query" /\ o = TransportError

\* `if response.status_code == 200`; the variant accepts every 2xx status.
IsSuccess2xx(code) == code >= 200 /\ code < 300
IsSuccess(code) == code = HTTP_OK

\* response.json(), ValueError when the body is no JSON
ParseJson(text) ==
  IF text = JsonText THEN [ok |-> TRUE, value |-> [echo |-> "hi"]]
  ELSE [ok |-> FALSE, value |-> NoJson]

\* the dict returned for a response with status 200
SuccessResult(r, rt) ==
  [success |-> TRUE, status_code |-> r.status_code,
   json |-> ParseJson(r.text).value,
   raw_response |-> IF ParseJson(r.text).ok THEN "" ELSE r.text,
   error |-> "", response_time |-> rt, returned |-> TRUE]

\* the dict returned for a response with another status
FailureResult(r, rt) ==
  [success |-> FALSE, status_code |-> r.status_code, json |-> NoJson,
   raw_response |-> "", error |-> r.text, response_time |-> rt, returned |-> TRUE]

\* the dict returned by `except requests.exceptions.RequestException`
ErrorResult(rt) ==
  [success |-> FALSE, status_code |-> 0, json |-> NoJson, raw_response |-> "",
   error |-> TransportError.text, response_time |-> rt, returned |-> TRUE]

eUnch == <<stressVars, stopVars, ep, duration, nreq, samplerVars>>

\* call_echo reads its parameters and calls call_echo_service, which builds
\* headers and message and sends the first request.
call_echo_service_send(t, o) ==
  /\ pc[t] = "echo"
  /\ sent' = [sent EXCEPT ![t] = Append(@, Request(FirstForm(args[t].method), args[t], o))]
  /\ IF FallsBack(FirstForm(args[t].method), o)
       THEN /\ pc' = [pc EXCEPT ![t] = "echo_fallback"]
            /\ UNCHANGED response
       ELSE IF o = TransportError
       THEN /\ pc' = [pc EXCEPT ![t] = "echo_exc_load"]
            /\ UNCHANGED response
       ELSE /\ response' = [response EXCEPT ![t] = o]
            /\ pc' = [pc EXCEPT ![t] = "echo_total_load"]
  /\ UNCHANGED <<metrics, reg, reply, incs, args, response_time, result, eUnch>>

\* Fallback: GET with the message as a path segment.
call_echo_service_fallback(t, o) ==
  /\ pc[t] = "echo_fallback"
  /\ sent' = [sent EXCEPT ![t] = Append(@, Request("path", args[t], o))]
  /\ IF o # TransportError
       THEN /\ response' = [response EXCEPT ![t] = o]
            /\ pc' = [pc EXCEPT ![t] = "echo_total_load"]
       ELSE /\ pc' = [pc EXCEPT ![t] = "echo_exc_load"]
            /\ UNCHANGED response
  /\ UNCHANGED <<metrics, reg, reply, incs, args, response_time, result, eUnch>>

\* response_time = time.time() - start_time;
\* metrics['echo_requests_total'] += 1, the read
call_echo_service_total_load(t, e) ==
  /\ pc[t] = "echo_total_load"
  /\ response_time' = [response_time EXCEPT ![t] = e]
  /\ reg' = [reg EXCEPT ![t] = metrics["echo_requests_total"]]
  /\ pc' = [pc EXCEPT ![t] = "echo_total_store"]
  /\ UNCHANGED <<metrics, reply, incs, args, sent, response, result, eUnch>>

\* metrics['echo_requests_total'] += 1, the write
call_echo_service_total_store(t) ==
  /\ pc[t] = "echo_total_store"
  /\ metrics' = [metrics EXCEPT !["echo_requests_total"] = reg[t] + 1]
  /\ incs' = [incs EXCEPT ![t]["echo_requests_total"] = @ + 1]
  /\ pc' = [pc EXCEPT ![t] = "echo_set_time"]
  /\ UNCHANGED <<reg, reply, args, sent, response, response_time, result, eUnch>>

\* metrics['last_echo_response_time'] = response_time
call_echo_service_set_time(t) ==
  /\ pc[t] = "echo_set_time"
  /\ metrics' = [metrics EXCEPT !["last_echo_response_time"] = response_time[t]]
  /\ pc' = [pc EXCEPT ![t] = IF IsSuccess(response[t].status_code)
                               THEN "echo_success_load" ELSE "echo_failed_load"]
  /\ UNCHANGED <<reg, reply, incs, args, sent, response, response_time, result, eUnch>>

\* metrics['echo_requests_success'] += 1, the read
call_echo_service_success_load(t) ==
  /\ pc[t] = "echo_success_load"
  /\ reg' = [reg EXCEPT ![t] = metrics["echo_requests_success"]]
  /\ pc' = [pc EXCEPT ![t] = "echo_success_store"]
  /\ UNCHANGED <<metrics, reply, incs, args, sent, response, response_time, result, eUnch>>

\* The reply of call_echo: jsonify(result), or the page rendered from it.
EchoReply == [code |-> 200, kind |-> "echo"]

\* metrics['echo_requests_success'] += 1, the write; response.json();
\* return {'success': True, ...}
call_echo_service_success_store(t) ==
  /\ pc[t] = "echo_success_store"
  /\ metrics' = [metrics EXCEPT !["echo_requests_success"] = reg[t] + 1]
  /\ incs' = [incs EXCEPT ![t]["echo_requests_success"] = @ + 1]
  /\ result' = [result EXCEPT ![t] = SuccessResult(response[t], response_time[t])]
  /\ reply' = [reply EXCEPT ![t] = EchoReply]
  /\ pc' = [pc EXCEPT ![t] = "ret"]
  /\ UNCHANGED <<reg, args, sent, response, response_time, eUnch>>

\* metrics['echo_requests_failed'] += 1, the read (status other than 200)
call_echo_service_failed_load(t) ==
  /\ pc[t] = "echo_failed_load"
  /\ reg' = [reg EXCEPT ![t] = metrics["echo_requests_failed"]]
  /\ pc' = [pc EXCEPT ![t] = "echo_failed_store"]
  /\ UNCHANGED <<metrics, reply, incs, args, sent, response, response_time, result, eUnch>>

\* metrics['echo_requests_failed'] += 1, the write; return {'success': False, ...}
call_echo_service_failed_store(t) ==
  /\ pc[t] = "echo_failed_store"
  /\ metrics' = [metrics EXCEPT !["echo_requests_failed"] = reg[t] + 1]
  /\ incs' = [incs EXCEPT ![t]["echo_requests_failed"] = @ + 1]
  /\ result' = [result EXCEPT ![t] = FailureResult(response[t], response_time[t])]
  /\ reply' = [reply EXCEPT ![t] = EchoReply]
  /\ pc' = [pc EXCEPT ![t] = "ret"]
  /\ UNCHANGED <<reg, args, sent, response, response_time, eUnch>>

\* except RequestException: response_time = time.time() - start_time;
\* metrics['echo_requests_failed'] += 1, the read
call_echo_service_exc_load(t, e) ==
  /\ pc[t] = "echo_exc_load"
  /\ response_time' = [response_time EXCEPT ![t] = e]
  /\ reg' = [reg EXCEPT ![t] = metrics["echo_requests_failed"]]
  /\ pc' = [pc EXCEPT ![t] = "echo_exc_store"]
  /\ UNCHANGED <<metrics, reply, incs, args, sent, response, result, eUnch>>

\* except RequestException: metrics['echo_requests_failed'] += 1, the write
call_echo_service_exc_store(t) ==
  /\ pc[t] = "echo_exc_store"
  /\ metrics' = [metrics EXCEPT !["echo_requests_failed"] = reg[t] + 1]
  /\ incs' = [incs EXCEPT ![t]["echo_requests_failed"] = @ + 1]
  /\ pc' = [pc EXCEPT ![t] = "echo_exc_time"]
  /\ UNCHANGED <<reg, reply, args, sent, response, response_time, result, eUnch>>

\* except RequestException: metrics['last_echo_response_time'] = response_time;
\* return {'success': False, 'error': str(e), ...}
call_echo_service_exc_time(t) ==
  /\ pc[t] = "echo_exc_time"
  /\ metrics' = [metrics EXCEPT !["last_echo_response_time"] = response_time[t]]
  /\ result' = [result EXCEPT ![t] = ErrorResult(response_time[t])]
  /\ reply' = [reply EXCEPT ![t] = EchoReply]
  /\ pc' = [pc EXCEPT ![t] = "ret"]
  /\ UNCHANGED <<reg, incs, args, sent, response, response_time, eUnch>>

\* ------------------------------------------------------------- periodic_metrics_update
pUnch == <<stressVars, stopVars, reqVars, echoVars>>

\* get_system_metrics wraps its whole body in try / `except Exception`, logs
\* and returns {}: whether what the sample raised reaches the caller.
Escapes(o) == FALSE

\* periodic_metrics_update: time.sleep(5) after get_system_metrics returned,
\* time.sleep(10) in `except Exception`.
Wait(escaped) == IF escaped THEN BackoffInterval ELSE UpdateInterval

\* get_system_metrics: psutil.cpu_percent(interval=1); psutil.virtual_memory()
get_system_metrics_read(c, m, o) ==
  /\ spc = "sample"
  /\ nsamples < MaxSamples
  /\ nsamples' = nsamples + 1
  /\ slast' = o
  /\ swait' = 0
  /\ IF o = "ok"
       THEN /\ sample' = [cpu_percent |-> c, memory_percent |-> m]
            /\ spc' = "store_cpu"
       ELSE /\ sample' = NoSample
            /\ spc' = "returned"
  /\ UNCHANGED <<metrics, pUnch>>

\* metrics['cpu_usage'] = cpu_percent
get_system_metrics_store_cpu ==
  /\ spc = "store_cpu"
  /\ metrics' = [metrics EXCEPT !["cpu_usage"] = sample.cpu_percent]
  /\ spc' = "store_memory"
  /\ UNCHANGED <<sample, slast, swait, nsamples, pUnch>>

\* metrics['memory_usage'] = memory.percent; return {...}
get_system_metrics_store_memory ==
  /\ spc = "store_memory"
  /\ metrics' = [metrics EXCEPT !["memory_usage"] = sample.memory_percent]
  /\ sample' = NoSample
  /\ spc' = "returned"
  /\ UNCHANGED <<slast, swait, nsamples, pUnch>>

\* The loop after get_system_metrics(): time.sleep(...)
periodic_metrics_update_sleep ==
  /\ spc = "returned"
  /\ swait' = Wait(Escapes(slast))
  /\ spc' = "sleeping"
  /\ UNCHANGED <<metrics, sample, slast, nsamples, pUnch>>

\* The sleep is over: `while True` again.
periodic_metrics_update_wake ==
  /\ spc = "sleeping"
  /\ spc' = "sample"
  /\ UNCHANGED <<metrics, sample, slast, swait, nsamples, pUnch>>

\* ------------------------------------------------------------- specification
\* What every handler does first and last.
HandlerThreads ==
  \/ \E t \in Handlers : count_load(t)
  \/ \E t \in Handlers : count_store(t)
  \/ \E t \in Handlers : Return(t)

\* POST /stress and the worker threads it starts.
StartThreads ==
  \/ \E t \in Handlers : start_stress(t)
  \/ \E r \in Runs, o \in PopenOutcomes : run_stress_ng_popen(r, o)
  \/ \E r \in Runs : run_stress_ng_inc_load(r)
  \/ \E r \in Runs : run_stress_ng_inc_store(r)
  \/ \E r \in Runs : run_stress_ng_set_duration(r)
  \/ \E r \in Runs : ProcessExit(r)
  \/ \E r \in Runs : run_stress_ng_communicate(r)
  \/ \E r \in Runs : run_stress_ng_remove(r)
  \/ \E r \in Runs : run_stress_ng_dec_load(r)
  \/ \E r \in Runs : run_stress_ng_dec_store(r)
  \/ \E r \in Runs : run_stress_ng_exc_load(r)
  \/ \E r \in Runs : run_stress_ng_exc_store(r)

\* POST /stop.
StopThreads ==
  \/ \E t \in Handlers : stop_stress_snapshot(t)
  \/ \E t \in Handlers, o \in StopOutcomes : stop_stress_loop(t, o)
  \/ \E t \in Handlers : stop_stress_clear(t)
  \/ \E t \in Handlers : stop_stress_reset(t)

\* POST /echo.
EchoThreads ==
  \/ \E t \in Handlers, o \in EchoOutcomes : call_echo_service_send(t, o)
  \/ \E t \in Handlers, o \in EchoOutcomes : call_echo_service_fallback(t, o)
  \/ \E t \in Handlers, e \in Elapsed : call_echo_service_total_load(t, e)
  \/ \E t \in Handlers : call_echo_service_total_store(t)
  \/ \E t \in Handlers : call_echo_service_set_time(t)
  \/ \E t \in Handlers : call_echo_service_success_load(t)
  \/ \E t \in Handlers : call_echo_service_success_store(t)
  \/ \E t \in Handlers : call_echo_service_failed_load(t)
  \/ \E t \in Handlers : call_echo_service_failed_store(t)
  \/ \E t \in Handlers, e \in Elapsed : call_echo_service_exc_load(t, e)
  \/ \E t \in Handlers : call_echo_service_exc_store(t)
  \/ \E t \in Handlers : call_echo_service_exc_time(t)

\* The stress runner: POST /stress and POST /stop racing with the worker
\* threads.
NextStress ==
  \/ \E t \in Serving, e \in {"stress_post", "stop"} :
        Receive(t, e, 30, NoArgs, MaxRequests, MaxRuns)
  \/ HandlerThreads
  \/ StartThreads
  \/ StopThreads

SpecStress == Init /\ [][NextStress]_vars

\* POST /stress with every duration.
NextStart ==
  \/ \E t \in Serving, d \in Durations :
        Receive(t, "stress_post", d, NoArgs, MaxRequests, MaxRuns)
  \/ HandlerThreads
  \/ StartThreads

SpecStart == Init /\ [][NextStart]_vars

\* The echo client: POST /echo.
NextEcho ==
  \/ \E t \in Serving, a \in EchoInputsPlain :
        Receive(t, "echo", 0, a, MaxEchoRequests, 0)
  \/ HandlerThreads
  \/ EchoThreads

SpecEcho == Init /\ [][NextEcho]_vars

\* The HTTP surface: every endpoint.
NextHttp ==
  \/ \E t \in Serving, e \in Endpoints, a \in EchoInputsPlain :
        Receive(t, e, 30, a, MaxRequestsHttp, MaxRuns)
  \/ \E t \in Handlers : index(t)
  \/ \E t \in Handlers : health(t)
  \/ \E t \in Handlers : get_metrics(t)
  \/ \E t \in Handlers : status(t)
  \/ \E t \in Handlers : start_stress_get(t)
  \/ HandlerThreads
  \/ StartThreads
  \/ StopThreads
  \/ EchoThreads

SpecHttp == Init /\ [][NextHttp]_vars

\* Stress runs side by side: POST /stress until every worker thread is in
\* use, no POST /stop.
NextRuns ==
  \/ \E t \in Serving : Receive(t, "stress_post", 30, NoArgs, MaxRequests, NRuns)
  \/ HandlerThreads
  \/ StartThreads

SpecRuns == Init /\ [][NextRuns]_vars

\* The system sampler: the metrics thread.
NextSampler ==
  \/ \E c \in CpuReadings, m \in MemoryReadings, o \in SampleOutcomes :
        get_system_metrics_read(c, m, o)
  \/ get_system_metrics_store_cpu
  \/ get_system_metrics_store_memory
  \/ periodic_metrics_update_sleep
  \/ periodic_metrics_update_wake

SpecSampler == Init /\ [][NextSampler]_vars

\* The counters under concurrency: GET /health and POST /echo, served by
\* every thread of the server at once.
NextCount ==
  \/ \E t \in Handlers, e \in {"health", "echo"}, a \in EchoInputsPlain :
        Receive(t, e, 0, a, MaxCountRequests, 0)
  \/ \E t \in Handlers : health(t)
  \/ HandlerThreads
  \/ EchoThreads

SpecCount == Init /\ [][NextCount]_vars

\* The echo client, one call at a time.
NextEchoSeq ==
  \/ \E t \in Serving, a \in EchoInputsPlain :
        ReceiveAlone(t, "echo", 0, a, MaxEchoRequests, 0)
  \/ HandlerThreads
  \/ EchoThreads

SpecEchoSeq == Init /\ [][NextEchoSeq]_vars

\* The payload builder: POST /echo with every message, method and flag, one
\* call at a time.
NextPayload ==
  \/ \E t \in Serving, a \in EchoInputs :
        ReceiveAlone(t, "echo", 0, a, MaxPayloadRequests, 0)
  \/ HandlerThreads
  \/ EchoThreads

SpecPayload == Init /\ [][NextPayload]_vars

\* ------------------------------------------------------------- properties
gauge == metrics["stress_tests_running"]

\* No handler is serving a request, and every worker thread is either
\* finished or blocked in communicate() on a process that is running.
Quiescent ==
  /\ \A t \in Handlers : pc[t] = "idle"
  /\ \A r \in Runs : \/ wpc[r] \in {"unused", "done"}
                     \/ wpc[r] = "communicate" /\ proc[r] = "running"

\* C1: at every quiescent point the stress_tests_running gauge equals the
\* number of handles in current_stress_processes.
C1_GaugeEqualsActiveSet ==
  Quiescent => gauge = Len(current_stress_processes)

\* C2: when stop_stress was called while every started stress test was
\* running (the gauge showing their number, N >= 1) and has completed, the
\* gauge is 0 once all worker threads have finished.
C2_GaugeBackToZeroAfterStop ==
  \A t \in Handlers :
    ( /\ pc[t] = "ret" /\ ep[t] = "stop"
      /\ all_running[t] /\ Len(snapshot[t]) >= 1
      /\ \A r \in Runs : wpc[r] \in {"unused", "done"} )
    => gauge = 0

\* C3: every echo call that has returned, whatever its outcome, executed
\* echo_requests_total += 1 exactly once and exactly one of
\* echo_requests_success += 1 (on success) and echo_requests_failed += 1 (on
\* failure); after the first call of the process the counters and
\* last_echo_response_time show it.
C3_EveryEchoCallCounted ==
  \A t \in Handlers :
    (pc[t] = "ret" /\ ep[t] = "echo") =>
      /\ incs[t]["echo_requests_total"] = 1
      /\ incs[t]["echo_requests_success"] + incs[t]["echo_requests_failed"] = 1
      /\ (incs[t]["echo_requests_success"] = 1) = result[t].success
      /\ nreq = 1 => /\ metrics["echo_requests_total"] = 1
                     /\ metrics["last_echo_response_time"] = result[t].response_time

\* C4: every request handled by any endpoint has executed
\* requests_total += 1 exactly once when its handler returns.
C4_EveryRequestCounted ==
  \A t \in Handlers : pc[t] = "ret" => incs[t]["requests_total"] = 1

\* C5: a POST /stress with 5 <= duration <= 3600 is accepted (200) and starts
\* a worker thread with that duration; with duration > 3600 it is answered
\* 400 and no step of its handler starts a worker or process or changes
\* current_stress_processes or the gauge.
C5_DurationUpTo3600 ==
  [][\A t \in Handlers :
       (ep[t] = "stress_post" /\ pc'[t] # pc[t]) =>
         /\ duration[t] > 3600 =>
              /\ UNCHANGED <<current_stress_processes, proc, wpc, wdur>>
              /\ gauge' = gauge
              /\ pc[t] = "stress_post" => pc'[t] = "ret" /\ reply'[t].code = 400
         /\ (5 <= duration[t] /\ duration[t] <= 3600 /\ pc[t] = "stress_post") =>
              /\ pc'[t] = "ret" /\ reply'[t].code = 200
              /\ \E r \in Runs : /\ wpc[r] = "unused" /\ wpc'[r] = "popen"
                                 /\ wdur'[r] = duration[t]
  ]_vars

\* C5 witness: a POST /stress with duration 3601 has been answered 400 after
\* one with duration 3600 started its worker.
C5_Witness ==
  \E t \in Handlers, r \in Runs :
    /\ pc[t] = "ret" /\ ep[t] = "stress_post" /\ duration[t] = 3601
    /\ reply[t].code = 400
    /\ wpc[r] = "popen" /\ wdur[r] = 3600

\* C6: a POST /stress whose duration is outside 5..3600, below 5 included, is
\* answered 400.
C6_DurationWithin5To3600 ==
  \A t \in Handlers :
    ( /\ pc[t] = "ret" /\ ep[t] = "stress_post"
      /\ (duration[t] < 5 \/ duration[t] > 3600) )
    => reply[t].code = 400

\* C7: an echo GET call sends the path-form request if and only if its
\* query-form request raised a transport error: after a response with any
\* status there is no second request, after a transport error the path form
\* is sent before the call returns, and the call's result is that of the
\* last request sent.
C7_FallbackOnlyOnTransportError ==
  \A t \in Handlers :
    (ep[t] = "echo" /\ args[t].method = "GET") =>
      LET s == sent[t] IN
      /\ Len(s) <= 2
      /\ Len(s) >= 1 => s[1].form = "query"
      /\ Len(s) = 2 => s[2].form = "path" /\ s[1].outcome = -1
      /\ (result[t].returned /\ s[1].outcome = -1) => Len(s) = 2
      /\ result[t].returned =>
           /\ result[t].success = (s[Len(s)].outcome = 200)
           /\ result[t].status_code
                = (IF s[Len(s)].outcome = -1 THEN 0 ELSE s[Len(s)].outcome)

\* C7 witness: a GET call whose query-form request raised a transport error
\* has returned the success of its path-form request.
C7_Witness ==
  \E t \in Handlers :
    /\ pc[t] = "ret" /\ ep[t] = "echo" /\ args[t].method = "GET"
    /\ Len(sent[t]) = 2 /\ sent[t][1].outcome = -1 /\ sent[t][2].outcome = 200
    /\ result[t].success

\* C8: an echo call that got a response is classified by its status alone:
\* 200 gives success=true with the body parsed as JSON or wrapped as
\* raw_response, any other status gives success=false with that status code,
\* one echo_requests_failed += 1 and no echo_requests_success += 1 (after the
\* first call of the process the two counters show exactly that).
C8_ClassifiedByStatus ==
  \A t \in Handlers :
    (pc[t] = "ret" /\ ep[t] = "echo" /\ response[t] # NoResponse) =>
      LET r == response[t] IN
      /\ IF r.status_code = 200
           THEN /\ result[t].success /\ result[t].status_code = 200
                /\ incs[t]["echo_requests_success"] = 1
                /\ incs[t]["echo_requests_failed"] = 0
                /\ IF r.text = "{\"echo\":\"hi\"}"
                     THEN result[t].json = [echo |-> "hi"] /\ result[t].raw_response = ""
                     ELSE result[t].raw_response = r.text
           ELSE /\ ~result[t].success /\ result[t].status_code = r.status_code
                /\ incs[t]["echo_requests_failed"] = 1
                /\ incs[t]["echo_requests_success"] = 0
      /\ nreq = 1 =>
           /\ metrics["echo_requests_failed"] = incs[t]["echo_requests_failed"]
           /\ metrics["echo_requests_success"] = incs[t]["echo_requests_success"]

\* C8 witness: a call answered with status 500 has returned success=false,
\* status_code 500.
C8_Witness ==
  \E t \in Handlers :
    /\ pc[t] = "ret" /\ ep[t] = "echo" /\ response[t].status_code = 500
    /\ ~result[t].success /\ result[t].status_code = 500
    /\ metrics["echo_requests_failed"] = 1 /\ metrics["echo_requests_success"] = 0

\* C9: whatever terminate() and wait() did for each process, stop_stress
\* empties current_stress_processes with its clear() and leaves the gauge 0
\* with its last statement, and no process of its snapshot is in the list
\* when it completes, one that did not exit within its wait included.
C9_StopClearsBookkeeping ==
  [][\A t \in Handlers :
       /\ (pc[t] = "stop_loop" /\ pc'[t] = "stop_reset") =>
            current_stress_processes' = <<>>
       /\ (pc[t] = "stop_reset" /\ pc'[t] = "ret") =>
            /\ gauge' = 0
            /\ Range(snapshot'[t]) \cap Range(current_stress_processes') = {}
  ]_vars

\* C9 witness: stop_stress has completed although the wait for a process
\* timed out: the process is still running, the list is empty, the gauge 0.
C9_Witness ==
  \E t \in Handlers, r \in Runs :
    /\ pc[t] = "ret" /\ ep[t] = "stop"
    /\ snapshot[t] = <<r>> /\ outcomes[t] = <<"timeout">> /\ proc[r] = "running"
    /\ current_stress_processes = <<>> /\ gauge = 0

\* C10: the count stop_stress reports is the number of processes of its
\* snapshot for which terminate() and wait() both returned; with an empty
\* snapshot it reports 0 with status 200, its clear() leaves the list empty
\* and its last statement the gauge 0.
C10_StoppedCountIsConfirmed ==
  [][\A t \in Handlers :
       ep'[t] = "stop" =>
         /\ stopped_count'[t]
              = Cardinality({i \in 1..Len(outcomes'[t]) : outcomes'[t][i] = "stopped"})
         /\ (pc[t] = "stop_loop" /\ pc'[t] = "stop_reset" /\ snapshot[t] = <<>>) =>
              current_stress_processes' = <<>>
         /\ (pc[t] = "stop_reset" /\ pc'[t] = "ret") =>
              /\ Len(outcomes'[t]) = Len(snapshot'[t])
              /\ reply'[t].code = 200
              /\ snapshot[t] = <<>> => stopped_count'[t] = 0 /\ gauge' = 0
  ]_vars

\* C10 witness: stop_stress has completed with a snapshot of one process
\* whose wait timed out, and reports 0.
C10_Witness ==
  \E t \in Handlers :
    /\ pc[t] = "ret" /\ ep[t] = "stop"
    /\ Len(snapshot[t]) = 1 /\ outcomes[t] = <<"timeout">> /\ stopped_count[t] = 0

\* C11: requests_total, echo_requests_total, echo_requests_success and
\* echo_requests_failed are monotonic: no step of any thread, under any
\* interleaving of the request handlers, lowers one of them.
C11_CountersMonotonic ==
  [][\A k \in CounterKeys : metrics'[k] >= metrics[k]]_vars

\* The text a request carries: the path form carries it percent-encoded.
Carried(s) == IF s.form = "path" THEN Unquote(s.message) ELSE s.message

CustomHeaders == {"X-Vulnerable-Header", "X-Log4j-Test"}

C13_ToolMissing ==
  [][\A r \in Runs :
       /\ (wpc[r] = "popen" /\ proc'[r] = "absent") =>
            /\ wpc'[r] = "done" /\ wres'[r] = "tool_missing"
            /\ UNCHANGED current_stress_processes
            /\ r \notin Range(current_stress_processes')
            /\ gauge' = gauge
            /\ metrics'["last_stress_duration"] = metrics["last_stress_duration"]
       /\ wres'[r] = "tool_missing" => proc'[r] = "absent"
       /\ proc[r] = "absent" => wpc'[r] = wpc[r] /\ wres'[r] = wres[r]
  ]_vars

\* C13 witness: a run has returned the tool-missing result while another
\* run's process is registered and counted, its duration still recorded.
C13_Witness ==
  \E r, q \in Runs :
    /\ proc[r] = "absent" /\ wpc[r] = "done" /\ wres[r] = "tool_missing"
    /\ wpc[q] = "communicate" /\ current_stress_processes = <<q>>
    /\ gauge = 1 /\ metrics["last_stress_duration"] = 30

\* C14: in the loop of the metrics thread a failed sample does not end the
\* loop, and the sleep that follows a failed sample is 10 seconds, the sleep
\* that follows a successful sample 5 seconds.
C14_BackoffAfterFailedSample ==
  spc = "sleeping" => swait = (IF slast = "ok" THEN 5 ELSE 10)

\* The statements of run_stress_ng after a successful Popen, in order.
SpawnedPath ==
  {<<"inc_load", "inc_store">>, <<"inc_store", "set_duration">>,
   <<"set_duration", "communicate">>, <<"communicate", "remove">>,
   <<"remove", "dec_load">>, <<"dec_load", "dec_store">>, <<"dec_store", "done">>}

\* C15: with no stop_stress, a run whose Popen succeeded appends its handle
\* at that step, executes the gauge's += 1 once, and after the process has
\* exited removes the handle and executes the gauge's -= 1 once; its handle is
\* in current_stress_processes, once, exactly from the Popen until that
\* removal.
C15_RegisteredFromSpawnToExit ==
  [][\A r \in Runs :
       /\ Cardinality({i \in 1..Len(current_stress_processes') :
                         current_stress_processes'[i] = r})
            = (IF wpc'[r] \in {"inc_load", "inc_store", "set_duration",
                               "communicate", "remove"} THEN 1 ELSE 0)
       /\ (wpc[r] = "popen" /\ proc'[r] = "running") =>
            /\ current_stress_processes' = Append(current_stress_processes, r)
            /\ wpc'[r] = "inc_load"
       /\ (proc[r] \in {"running", "exited"} /\ wpc'[r] # wpc[r]) =>
            /\ <<wpc[r], wpc'[r]>> \in SpawnedPath
            /\ wpc[r] = "inc_store" => gauge' = wreg[r] + 1
            /\ wpc[r] = "inc_load" => wreg'[r] = gauge
            /\ wpc[r] = "communicate" => proc[r] = "exited"
            /\ wpc[r] = "remove" =>
                 /\ r \in Range(current_stress_processes)
                 /\ r \notin Range(current_stress_processes')
            /\ wpc[r] = "dec_load" => wreg'[r] = gauge
            /\ wpc[r] = "dec_store" => gauge' = wreg[r] - 1 /\ wres'[r] = "success"
            /\ wpc[r] \notin {"inc_store", "dec_store"} => gauge' = gauge
  ]_vars

\* C15 witness: one run has finished after its process exited, its handle
\* removed and the gauge decremented, while another run is registered and
\* counted.
C15_Witness ==
  \E r, q \in Runs :
    /\ wpc[r] = "done" /\ wres[r] = "success" /\ proc[r] = "exited"
    /\ wpc[q] = "communicate" /\ proc[q] = "running"
    /\ current_stress_processes = <<q>> /\ gauge = 1

\* C16: the stress_tests_running gauge is never negative.
C16_GaugeNeverNegative == gauge >= 0

\* C17: after any sequence of echo calls executed one at a time, with no
\* call in progress, echo_requests_total = echo_requests_success +
\* echo_requests_failed.
C17_TotalIsSuccessPlusFailed ==
  (\A t \in Handlers : pc[t] = "idle") =>
    metrics["echo_requests_total"]
      = metrics["echo_requests_success"] + metrics["echo_requests_failed"]

\* C18: every handle that the clear() of a stop_stress call removes from
\* current_stress_processes is one that call iterated over and called
\* terminate() on: no run that registered after the call's snapshot is
\* dropped from the list.
C18_RemovedWereSignalled ==
  [][\A t \in Handlers :
       (pc[t] = "stop_loop" /\ pc'[t] = "stop_reset") =>
         \A r \in Range(current_stress_processes) \ Range(current_stress_processes') :
           r \in Range(snapshot[t])
  ]_vars

\* C19: a run whose Popen raised an exception other than FileNotFoundError
\* (no process, nothing registered) changes neither the gauge nor
\* current_stress_processes in any of its steps.
C19_FailedSpawnLeavesGauge ==
  [][\A r \in Runs :
       ((proc[r] = "failed" \/ proc'[r] = "failed") /\ wpc'[r] # wpc[r]) =>
         /\ gauge' = gauge
         /\ UNCHANGED current_stress_processes
  ]_vars

====
